---- MODULE Spec2Model ----
(***************************************************************************)
(* TaskGuru server (src/index.js): an Express application over a MongoDB   *)
(* "tasks" collection that broadcasts every committed mutation through     *)
(* Socket.IO.                                                              *)
(*                                                                         *)
(* Every await of a handler is two steps of the model: the store executes  *)
(* the call (pc "call" -> "ret") and, later, the handler's continuation    *)
(* runs (the call "returns").  Continuations of different requests         *)
(* interleave freely, as they do on Node's event loop with a pool of       *)
(* store connections (maxPoolSize 10).                                     *)
(***************************************************************************)
EXTENDS Integers, Sequences, FiniteSets, TLC

\* ------------------------------------------------------------------ bounds
\* Number of mutation requests (POST/PUT/DELETE /tasks) in one behaviour.
MaxReq == 2
\* Number of client connections in one behaviour of SpecConn.
MaxConn == 2
\* Number of mutation requests in one behaviour of SpecConn.
MaxConnReq == 1

Reqs == 1..MaxReq
Conns == 1..MaxConn

\* ------------------------------------------------------------------ values
\* A JavaScript value that can sit in a document's _id field.
Oid(h) == [t |-> "oid", v |-> h]
Str(s) == [t |-> "str", v |-> s]
Null == [t |-> "null", v |-> ""]

\* JavaScript truthiness of an _id value (the `if (result.insertedId)` test).
Truthy(x) == ~(x = Null \/ x = Str(""))

\* What findOne returns when nothing matches (JavaScript null).
NullDoc == [isNull |-> TRUE]

\* Hex strings: of the task the database may hold at start, of the ObjectIds
\* the driver generates (in this order), and of one that is never stored.
SeedHex == "a0"
GenHex == <<"a1", "a2", "a3", "a4">>
GhostHex == "ff"
ValidHex == {SeedHex, GhostHex} \cup {GenHex[i] : i \in 1..Len(GenHex)}
\* A :id path parameter that is not 24 hex digits.
BadParam == "bad"

\* A document: a function from a subset of the field names to values.
HasField(d, f) == f \in DOMAIN d
DocOf(id, title, email) ==
  [f \in {"_id", "title", "userEmail"} |->
     IF f = "_id" THEN id ELSE IF f = "title" THEN title ELSE email]
TitleOnly(title) == [f \in {"title"} |-> title]
SeedTask == DocOf(Oid(SeedHex), "T1", "a@x.com")

\* `delete updatedTask._id`
DeleteField(d, f) == [g \in (DOMAIN d) \ {f} |-> d[g]]
\* `{ _id: id, ...task }`: the spread's fields win over the literal's.
SpreadOverId(id, task) ==
  [f \in {"_id"} \cup DOMAIN task |-> IF f \in DOMAIN task THEN task[f] ELSE id]
\* `$set`: the named fields are replaced, the others kept.
SetFields(d, s) ==
  [f \in (DOMAIN d) \cup (DOMAIN s) |-> IF f \in DOMAIN s THEN s[f] ELSE d[f]]

\* ------------------------------------------------------------------- state
VARIABLES
  tasks,     \* the "tasks" collection: _id value -> document
  nextOid,   \* index in GenHex of the next ObjectId the driver generates
  req,       \* the mutation requests: handler position, arguments, response
  emitted,   \* the io.emit calls so far, in order, each with its recipients
  retOrder,  \* the requests whose write call has returned, in return order
  conn,      \* the client connections
  mongoUp,   \* client.topology.isConnected()
  health,    \* the last answer of GET /
  users      \* the "users" collection: _id value -> document

vars ==
  <<tasks, nextOid, req, emitted, retOrder, conn, mongoUp, health, users>>

EmptyDoc == [f \in {} |-> Null]
\* What a store call gave back: ok is FALSE when it threw, n is modifiedCount
\* or deletedCount (1 for an acknowledged insert), matched is matchedCount,
\* id is insertedId, doc is findOne's document, docs is find().toArray()'s
\* documents (their order is the store's own and is not modelled).
NoResult ==
  [ok |-> TRUE, n |-> 0, matched |-> 0, id |-> Null, doc |-> NullDoc,
   docs |-> {}]
\* seen is history: whether the task a DELETE names was stored when the
\* request arrived.  emitFailed is history: the handler's io.emit call threw.
IdleReq == [kind |-> "none", id |-> "", body |-> EmptyDoc, pc |-> "idle",
            op |-> "none", result |-> NoResult, status |-> 0,
            resp |-> EmptyDoc, seen |-> FALSE, emitFailed |-> FALSE]
\* recovered is the closed connection whose session this one restored (0:
\* none), replay the events (indices of emitted) sent to it at that moment.
NewConn == [st |-> "new", auth |-> "pending", email |-> "",
            recovered |-> 0, replay |-> <<>>]

\* The collection is persistent: at start it is empty or already holds a task.
Init ==
  /\ tasks \in {EmptyDoc, [i \in {Oid(SeedHex)} |-> SeedTask]}
  /\ nextOid = 1
  /\ req = [r \in Reqs |-> IdleReq]
  /\ emitted = <<>>
  /\ retOrder = <<>>
  /\ conn = [c \in Conns |-> NewConn]
  /\ mongoUp = TRUE
  /\ health = [status |-> "none", mongo |-> "none", websockets |-> 0,
               counted |-> {}]
  /\ users = EmptyDoc

\* ------------------------------------------------------------ store (driver)
\* insertOne gives the document an ObjectId when its _id is missing or null.
PrepareDoc(doc, n) ==
  IF HasField(doc, "_id") /\ doc["_id"] # Null
    THEN doc
    ELSE SetFields(doc, [f \in {"_id"} |-> Oid(GenHex[n])])
GeneratesId(doc) == ~(HasField(doc, "_id") /\ doc["_id"] # Null)

\* The collection after inserting d (its _id is set).
Inserted(ts, d) ==
  [i \in (DOMAIN ts) \cup {d["_id"]} |-> IF i = d["_id"] THEN d ELSE ts[i]]
\* updateOne({_id: id}, {$set: s}): the matched document after the update.
Updated(ts, id, s) == SetFields(ts[id], s)
\* $set may name _id only with the value the document already has.
SetAllowed(ts, id, s) == ~HasField(s, "_id") \/ s["_id"] = id
MatchedCount(ts, id) == IF id \in DOMAIN ts THEN 1 ELSE 0
ModifiedCount(ts, id, s) ==
  IF id \in DOMAIN ts /\ Updated(ts, id, s) # ts[id] THEN 1 ELSE 0
AfterUpdate(ts, id, s) ==
  IF id \in DOMAIN ts
    THEN [i \in DOMAIN ts |-> IF i = id THEN Updated(ts, id, s) ELSE ts[i]]
    ELSE ts
DeletedCount(ts, id) == IF id \in DOMAIN ts THEN 1 ELSE 0
AfterDelete(ts, id) == [i \in (DOMAIN ts) \ {id} |-> ts[i]]
Found(ts, id) == IF id \in DOMAIN ts THEN ts[id] ELSE NullDoc

\* `new ObjectId(id)`: throws unless id is 24 hex digits.
ValidObjectId(id) == id \in ValidHex
ObjectId(id) == Oid(id)

\* --------------------------------------------------------------- broadcast
\* The sockets io.emit writes to: those admitted by the middleware and open.
ActiveConns == {c \in Conns : conn[c].st = "active"}
\* Faulty variant: the event goes only to the sessions of the task's owner.
EmitToOwner(ev, payload, r) ==
  emitted' = Append(emitted,
    [ev |-> ev, payload |-> payload, rid |-> r,
     to |-> {c \in ActiveConns :
               HasField(payload, "userEmail")
                 /\ conn[c].email = payload["userEmail"]}])
Emit(ev, payload, r) ==
  emitted' = Append(emitted,
    [ev |-> ev, payload |-> payload, rid |-> r, to |-> ActiveConns])

\* Faulty variant: a 404 is never sent and the request stays open.
RespondUnlessNotFound(r, code, body) ==
  IF code = 404
    THEN req' = [req EXCEPT ![r].pc = "hung"]
    ELSE req' = [req EXCEPT ![r].pc = "done", ![r].status = code,
                            ![r].resp = body]
Respond(r, code, body) ==
  req' = [req EXCEPT ![r].pc = "done", ![r].status = code, ![r].resp = body]
Call(r, op) ==
  req' = [req EXCEPT ![r].pc = "call", ![r].op = op]
ErrorBody(msg) == [error |-> msg]

\* Requests take the slots in order.
CanArrive(r) ==
  /\ req[r].pc = "idle"
  /\ \A q \in Reqs : q < r => req[q].pc # "idle"
Returned(r, op) == req[r].pc = "ret" /\ req[r].op = op
Pending(r, op) == req[r].pc = "call" /\ req[r].op = op
StoreReturns(r, res) ==
  req' = [req EXCEPT ![r].pc = "ret", ![r].result = res]

\* ----------------------------------------------------------- POST /tasks
\* Faulty variant: the body is broadcast without the store's identifier.
InsertedTaskWithoutId(id, task) == DeleteField(task, "_id")
\* `{ _id: result.insertedId, ...task }`
InsertedTask(id, task) == SpreadOverId(id, task)
\* Faulty variant: the test looks at the acknowledgement, not at the identifier.
InsertReportedByAck(res) == res.ok
\* `if (result.insertedId)`
InsertReported(res) == Truthy(res.id)

\* The request arrives; the handler calls insertOne(task), and the driver
\* sets task._id when the body gave none.
PostTasks(r, body) ==
  /\ CanArrive(r)
  /\ GeneratesId(body) => nextOid <= Len(GenHex)
  /\ req' = [req EXCEPT ![r].kind = "POST", ![r].pc = "call",
                        ![r].op = "insertOne",
                        ![r].body = PrepareDoc(body, nextOid)]
  /\ nextOid' = IF GeneratesId(body) THEN nextOid + 1 ELSE nextOid
  /\ UNCHANGED <<tasks, emitted, retOrder, conn, mongoUp, health, users>>

\* The store executes insertOne: a duplicate _id is a write error.
StoreInsertOne(r) ==
  /\ Pending(r, "insertOne")
  /\ LET d == req[r].body IN
       IF d["_id"] \in DOMAIN tasks
         THEN /\ StoreReturns(r, [NoResult EXCEPT !.ok = FALSE])
              /\ UNCHANGED tasks
         ELSE /\ tasks' = Inserted(tasks, d)
              /\ StoreReturns(r, [NoResult EXCEPT !.n = 1, !.id = d["_id"]])
  /\ UNCHANGED <<nextOid, emitted, retOrder, conn, mongoUp, health, users>>

\* insertOne returns (or throws) and the handler runs to its end.
PostTasksReturn(r) ==
  /\ Returned(r, "insertOne")
  /\ retOrder' = Append(retOrder, r)
  /\ LET res == req[r].result IN
       IF ~res.ok
         THEN /\ Respond(r, 500, ErrorBody("Internal server error"))
              /\ UNCHANGED emitted
         ELSE IF InsertReported(res)
           THEN /\ Emit("taskAdded", InsertedTask(res.id, req[r].body), r)
                /\ Respond(r, 201, InsertedTask(res.id, req[r].body))
           ELSE /\ Respond(r, 500, ErrorBody("Task creation failed"))
                /\ UNCHANGED emitted
  /\ UNCHANGED <<tasks, nextOid, conn, mongoUp, health, users>>

\* -------------------------------------------------------- PUT /tasks/:id
\* Faulty variant: the body's identifier is left in the $set document.
UnstrippedBody(body) == body
\* `delete updatedTask._id`
StrippedBody(body) == DeleteField(body, "_id")
\* Faulty variant: the test looks at the acknowledgement, not at the count.
UpdateNotFoundByAck(res) == ~res.ok
\* `if (result.modifiedCount === 0)`
UpdateNotFound(res) == res.n = 0

\* The request arrives; `new ObjectId(id)` throws on a malformed id,
\* otherwise the handler calls updateOne.
PutTasks(r, id, body) ==
  /\ CanArrive(r)
  /\ IF ValidObjectId(id)
       THEN req' = [req EXCEPT ![r].kind = "PUT", ![r].id = id,
                               ![r].body = StrippedBody(body),
                               ![r].pc = "call", ![r].op = "updateOne"]
       ELSE req' = [req EXCEPT ![r].kind = "PUT", ![r].id = id,
                               ![r].body = StrippedBody(body),
                               ![r].pc = "done", ![r].status = 500,
                               ![r].resp = ErrorBody("Task update failed")]
  /\ UNCHANGED <<tasks, nextOid, emitted, retOrder, conn, mongoUp, health, users>>

StoreUpdateOne(r) ==
  /\ Pending(r, "updateOne")
  /\ LET id == ObjectId(req[r].id)
         s == req[r].body
     IN IF id \in DOMAIN tasks /\ ~SetAllowed(tasks, id, s)
          THEN /\ StoreReturns(r, [NoResult EXCEPT !.ok = FALSE])
               /\ UNCHANGED tasks
          ELSE /\ tasks' = AfterUpdate(tasks, id, s)
               /\ StoreReturns(r,
                    [NoResult EXCEPT !.n = ModifiedCount(tasks, id, s),
                                     !.matched = MatchedCount(tasks, id)])
  /\ UNCHANGED <<nextOid, emitted, retOrder, conn, mongoUp, health, users>>

\* updateOne returns: 404 when nothing was modified, else findOne is called.
PutTasksAfterUpdate(r) ==
  /\ Returned(r, "updateOne")
  /\ retOrder' = Append(retOrder, r)
  /\ LET res == req[r].result IN
       IF ~res.ok
         THEN Respond(r, 500, ErrorBody("Task update failed"))
         ELSE IF UpdateNotFound(res)
           THEN Respond(r, 404, ErrorBody("Task not found"))
           ELSE Call(r, "findOne")
  /\ UNCHANGED <<tasks, nextOid, emitted, conn, mongoUp, health, users>>

StoreFindOne(r) ==
  /\ Pending(r, "findOne")
  /\ StoreReturns(r,
       [req[r].result EXCEPT !.doc = Found(tasks, ObjectId(req[r].id))])
  /\ UNCHANGED <<tasks, nextOid, emitted, retOrder, conn, mongoUp, health, users>>

\* findOne returns: its result is broadcast and sent back.
PutTasksAfterFind(r) ==
  /\ Returned(r, "findOne")
  /\ LET res == req[r].result IN
       IF ~res.ok
         THEN /\ Respond(r, 500, ErrorBody("Task update failed"))
              /\ UNCHANGED emitted
         ELSE /\ Emit("taskUpdated", res.doc, r)
              /\ Respond(r, 200, res.doc)
  /\ UNCHANGED <<tasks, nextOid, retOrder, conn, mongoUp, health, users>>

\* ----------------------------------------------------- DELETE /tasks/:id
\* Faulty variant: the test looks at the acknowledgement, not at the count.
DeleteNotFoundByAck(res) == ~res.ok
\* `if (result.deletedCount === 0)`
DeleteNotFound(res) == res.n = 0

DeleteTasks(r, id) ==
  /\ CanArrive(r)
  /\ IF ValidObjectId(id)
       THEN req' = [req EXCEPT ![r].kind = "DELETE", ![r].id = id,
                               ![r].pc = "call", ![r].op = "deleteOne",
                               ![r].seen = (ObjectId(id) \in DOMAIN tasks)]
       ELSE req' = [req EXCEPT ![r].kind = "DELETE", ![r].id = id,
                               ![r].pc = "done", ![r].status = 500,
                               ![r].resp = ErrorBody("Task deletion failed")]
  /\ UNCHANGED <<tasks, nextOid, emitted, retOrder, conn, mongoUp, health, users>>

StoreDeleteOne(r) ==
  /\ Pending(r, "deleteOne")
  /\ LET id == ObjectId(req[r].id) IN
       /\ tasks' = AfterDelete(tasks, id)
       /\ StoreReturns(r, [NoResult EXCEPT !.n = DeletedCount(tasks, id)])
  /\ UNCHANGED <<nextOid, emitted, retOrder, conn, mongoUp, health, users>>

\* Faulty variant: the id is broadcast before the outcome is looked at.
OptimisticDeleteReturn(r) ==
  /\ Returned(r, "deleteOne")
  /\ retOrder' = Append(retOrder, r)
  /\ Emit("taskDeleted", Str(req[r].id), r)
  /\ LET res == req[r].result IN
       IF ~res.ok
         THEN Respond(r, 500, ErrorBody("Task deletion failed"))
         ELSE IF DeleteNotFound(res)
           THEN Respond(r, 404, ErrorBody("Task not found"))
           ELSE Respond(r, 200, [message |-> "Task deleted successfully"])
  /\ UNCHANGED <<tasks, nextOid, conn, mongoUp, health, users>>

\* deleteOne returns: 404 when nothing was deleted, else the id is broadcast.
DeleteTasksReturn(r) ==
  /\ Returned(r, "deleteOne")
  /\ retOrder' = Append(retOrder, r)
  /\ LET res == req[r].result IN
       IF ~res.ok
         THEN /\ Respond(r, 500, ErrorBody("Task deletion failed"))
              /\ UNCHANGED emitted
         ELSE IF DeleteNotFound(res)
           THEN /\ Respond(r, 404, ErrorBody("Task not found"))
                /\ UNCHANGED emitted
           ELSE /\ Emit("taskDeleted", Str(req[r].id), r)
                /\ Respond(r, 200, [message |-> "Task deleted successfully"])
  /\ UNCHANGED <<tasks, nextOid, conn, mongoUp, health, users>>

\* A store call fails (network, timeout): the awaited promise rejects and
\* the collection is as it was.
StoreThrow(r) ==
  /\ req[r].pc = "call"
  /\ StoreReturns(r, [req[r].result EXCEPT !.ok = FALSE])
  /\ UNCHANGED <<tasks, nextOid, emitted, retOrder, conn, mongoUp, health, users>>

\* ------------------------------------------------------------- GET /tasks
\* Faulty variant: the filter is dropped.
ListAll(ts, email) == {ts[i] : i \in DOMAIN ts}
\* find({ userEmail }): the documents whose userEmail is the given one.
ListByOwner(ts, email) ==
  {ts[i] : i \in {j \in DOMAIN ts :
                    HasField(ts[j], "userEmail")
                      /\ ts[j]["userEmail"] = email}}
\* `if (!userEmail)`: an absent or empty query parameter.
EmailMissing(email) == email = ""

\* The request arrives with ?email=<email> ("" when absent).
GetTasks(r, email) ==
  /\ CanArrive(r)
  /\ IF EmailMissing(email)
       THEN req' = [req EXCEPT ![r].kind = "GET", ![r].id = email,
                               ![r].pc = "done", ![r].status = 400,
                               ![r].resp = ErrorBody("Email required")]
       ELSE req' = [req EXCEPT ![r].kind = "GET", ![r].id = email,
                               ![r].pc = "call", ![r].op = "find"]
  /\ UNCHANGED <<tasks, nextOid, emitted, retOrder, conn, mongoUp, health,
                 users>>

StoreFind(r) ==
  /\ Pending(r, "find")
  /\ StoreReturns(r,
       [NoResult EXCEPT !.docs = ListByOwner(tasks, req[r].id)])
  /\ UNCHANGED <<tasks, nextOid, emitted, retOrder, conn, mongoUp, health,
                 users>>

GetTasksReturn(r) ==
  /\ Returned(r, "find")
  /\ IF req[r].result.ok
       THEN Respond(r, 200, req[r].result.docs)
       ELSE Respond(r, 500, ErrorBody("Failed to fetch tasks"))
  /\ UNCHANGED <<tasks, nextOid, emitted, retOrder, conn, mongoUp, health,
                 users>>

\* ------------------------------------------------------------ POST /users
\* The request arrives; the handler calls insertOne(user) on "users".
PostUsers(r, body) ==
  /\ CanArrive(r)
  /\ GeneratesId(body) => nextOid <= Len(GenHex)
  /\ req' = [req EXCEPT ![r].kind = "USER", ![r].pc = "call",
                        ![r].op = "insertUser",
                        ![r].body = PrepareDoc(body, nextOid)]
  /\ nextOid' = IF GeneratesId(body) THEN nextOid + 1 ELSE nextOid
  /\ UNCHANGED <<tasks, emitted, retOrder, conn, mongoUp, health, users>>

StoreInsertUser(r) ==
  /\ Pending(r, "insertUser")
  /\ LET d == req[r].body IN
       IF d["_id"] \in DOMAIN users
         THEN /\ StoreReturns(r, [NoResult EXCEPT !.ok = FALSE])
              /\ UNCHANGED users
         ELSE /\ users' = Inserted(users, d)
              /\ StoreReturns(r, [NoResult EXCEPT !.n = 1, !.id = d["_id"]])
  /\ UNCHANGED <<tasks, nextOid, emitted, retOrder, conn, mongoUp, health>>

\* insertOne returns (or throws): the driver's result is the 201 body.
PostUsersReturn(r) ==
  /\ Returned(r, "insertUser")
  /\ IF req[r].result.ok
       THEN Respond(r, 201, [acknowledged |-> TRUE,
                             insertedId |-> req[r].result.id])
       ELSE Respond(r, 500, ErrorBody("User creation failed"))
  /\ UNCHANGED <<tasks, nextOid, emitted, retOrder, conn, mongoUp, health,
                 users>>

\* --------------------------------------------------------- io.emit throws
\* io.emit is called inside the handler's try block: when it throws, nothing
\* is broadcast and the catch block answers.
EmitFailed(r, msg) ==
  req' = [req EXCEPT ![r].pc = "done", ![r].status = 500,
                     ![r].resp = ErrorBody(msg), ![r].emitFailed = TRUE]

PostTasksEmitThrows(r) ==
  /\ Returned(r, "insertOne")
  /\ req[r].result.ok /\ InsertReported(req[r].result)
  /\ retOrder' = Append(retOrder, r)
  /\ EmitFailed(r, "Internal server error")
  /\ UNCHANGED <<tasks, nextOid, emitted, conn, mongoUp, health, users>>

PutTasksEmitThrows(r) ==
  /\ Returned(r, "findOne")
  /\ req[r].result.ok
  /\ EmitFailed(r, "Task update failed")
  /\ UNCHANGED <<tasks, nextOid, emitted, retOrder, conn, mongoUp, health,
                 users>>

DeleteTasksEmitThrows(r) ==
  /\ Returned(r, "deleteOne")
  /\ req[r].result.ok /\ ~DeleteNotFound(req[r].result)
  /\ retOrder' = Append(retOrder, r)
  /\ EmitFailed(r, "Task deletion failed")
  /\ UNCHANGED <<tasks, nextOid, emitted, conn, mongoUp, health, users>>

\* ------------------------------------------------------------ request inputs
\* The body of the specifications with restricted inputs: the seed task's
\* fields without an identifier.
ConnBody == DeleteField(SeedTask, "_id")
PostBodies ==
  { DeleteField(SeedTask, "_id"),
    DocOf(Str("c1"), "T1", "a@x.com"),
    DocOf(Str(""), "T1", "a@x.com"),
    SetFields(TitleOnly("T1"), [f \in {"_id"} |-> Null]) }
PutBodies ==
  { TitleOnly("T1"), TitleOnly("T2"), DocOf(Str("zz"), "T2", "") }
\* The :id of a stored or once-stored task, of none, and a malformed one.
ParamIds ==
  {SeedHex, GhostHex, BadParam} \cup {GenHex[i] : i \in 1..(nextOid - 1)}

Next ==
  \/ \E r \in Reqs, b \in PostBodies : PostTasks(r, b)
  \/ \E r \in Reqs, i \in ParamIds, b \in PutBodies : PutTasks(r, i, b)
  \/ \E r \in Reqs, i \in ParamIds : DeleteTasks(r, i)
  \/ \E r \in Reqs : StoreInsertOne(r)
  \/ \E r \in Reqs : StoreUpdateOne(r)
  \/ \E r \in Reqs : StoreFindOne(r)
  \/ \E r \in Reqs : StoreDeleteOne(r)
  \/ \E r \in Reqs : StoreThrow(r)
  \/ \E r \in Reqs : PostTasksReturn(r)
  \/ \E r \in Reqs : PutTasksAfterUpdate(r)
  \/ \E r \in Reqs : PutTasksAfterFind(r)
  \/ \E r \in Reqs : DeleteTasksReturn(r)
  \/ \E r \in Reqs : PostTasksEmitThrows(r)
  \/ \E r \in Reqs : PutTasksEmitThrows(r)
  \/ \E r \in Reqs : DeleteTasksEmitThrows(r)

Spec == Init /\ [][Next]_vars

\* Reads of the collection next to writes by two owners.
OwnerBodies == {ConnBody, DocOf(Null, "T1", "b@x.com")}
QueryEmails == {"", "a@x.com", "b@x.com"}

NextRead ==
  \/ \E r \in Reqs, e \in QueryEmails : GetTasks(r, e)
  \/ \E r \in Reqs, b \in OwnerBodies : PostTasks(r, b)
  \/ \E r \in Reqs : PutTasks(r, SeedHex, DocOf(Str("zz"), "T2", ""))
  \/ \E r \in Reqs : DeleteTasks(r, SeedHex)
  \/ \E r \in Reqs : StoreFind(r)
  \/ \E r \in Reqs : StoreInsertOne(r)
  \/ \E r \in Reqs : StoreUpdateOne(r)
  \/ \E r \in Reqs : StoreFindOne(r)
  \/ \E r \in Reqs : StoreDeleteOne(r)
  \/ \E r \in Reqs : StoreThrow(r)
  \/ \E r \in Reqs : GetTasksReturn(r)
  \/ \E r \in Reqs : PostTasksReturn(r)
  \/ \E r \in Reqs : PutTasksAfterUpdate(r)
  \/ \E r \in Reqs : PutTasksAfterFind(r)
  \/ \E r \in Reqs : DeleteTasksReturn(r)

SpecRead == Init /\ [][NextRead]_vars

\* -------------------------------------------------------------- connections
\* A client connection: "new" (not yet made), "open" (the Engine.IO transport
\* is established, the Socket.IO CONNECT packet with the auth payload has not
\* been handled yet), "active" (admitted by the middleware: a socket of the
\* namespace), "rejected" (the middleware answered Unauthorized; the transport
\* is still open until the client or the connect timeout closes it), "closed".
\* auth keeps the middleware's verdict after the connection is closed.
AuthClaims == {"", "a@x.com", "b@x.com"}

CanOpen(c) ==
  /\ conn[c].st = "new"
  /\ \A d \in Conns : d < c => conn[d].st # "new"

\* The transport handshake of a client with the server created at line 50.
EngineOpen(c) ==
  /\ CanOpen(c)
  /\ conn' = [conn EXCEPT ![c].st = "open"]
  /\ UNCHANGED <<tasks, nextOid, req, emitted, retOrder, mongoUp, health, users>>

\* `if (email)`: an absent or empty claim is falsy.
Admitted(email) == email # ""

\* io.use: the middleware sees the handshake's auth.email.
AuthMiddleware(c, email) ==
  /\ conn[c].st = "open"
  /\ IF Admitted(email)
       THEN conn' = [conn EXCEPT ![c].st = "active", ![c].auth = "ok",
                                 ![c].email = email]
       ELSE conn' = [conn EXCEPT ![c].st = "rejected",
                                 ![c].auth = "unauthorized"]
  /\ UNCHANGED <<tasks, nextOid, req, emitted, retOrder, mongoUp, health, users>>

\* The transport closes (for an active socket: its "disconnect" event).
Disconnect(c) ==
  /\ conn[c].st \in {"open", "active", "rejected"}
  /\ conn' = [conn EXCEPT ![c].st = "closed"]
  /\ UNCHANGED <<tasks, nextOid, req, emitted, retOrder, mongoUp, health, users>>

\* ------------------------------------------------ connectionStateRecovery
\* The events a connection's client has got: broadcast while it was active,
\* or replayed when it restored a session.
Range(q) == {q[i] : i \in DOMAIN q}
Received(c) == {i \in DOMAIN emitted : c \in emitted[i].to}
                 \cup Range(conn[c].replay)
Max(S) == CHOOSE x \in S : \A y \in S : y <= x
\* The client's offset is the last event it got; the server replays the
\* events emitted after it.
Missed(p) ==
  [k \in 1..(Len(emitted) - Max(Received(p))) |-> Max(Received(p)) + k]
\* The session of p was stored at its disconnect and not restored since; the
\* client can name an offset once it has got an event.
Restorable(p) ==
  /\ conn[p].st = "closed"
  /\ conn[p].auth \in {"ok", "recovered"}
  /\ Received(p) # {}
  /\ \A d \in Conns : conn[d].recovered # p

\* The client of the closed connection p reconnects as c with the session id
\* and offset of p: the session is restored, the middleware is skipped
\* (so socket.userEmail is not set) and the missed events are sent.
Recover(c, p) ==
  /\ conn[c].st = "open"
  /\ Restorable(p)
  /\ conn' = [conn EXCEPT ![c].st = "active", ![c].auth = "recovered",
                          ![c].recovered = p, ![c].replay = Missed(p)]
  /\ UNCHANGED <<tasks, nextOid, req, emitted, retOrder, mongoUp, health,
                 users>>

\* The store connection is lost or comes back.
TopologyChange ==
  /\ mongoUp' = ~mongoUp
  /\ UNCHANGED <<tasks, nextOid, req, emitted, retOrder, conn, health, users>>

\* io.engine.clientsCount: the open Engine.IO transports.
EngineClients == {c \in Conns : conn[c].st \in {"open", "active", "rejected"}}

\* GET /: counted is the set behind the number websockets.
HealthCheck ==
  /\ health' = [status |-> "ok",
                mongo |-> IF mongoUp THEN "connected" ELSE "disconnected",
                websockets |-> Cardinality(EngineClients),
                counted |-> EngineClients]
  /\ UNCHANGED <<tasks, nextOid, req, emitted, retOrder, conn, mongoUp, users>>

\* GET / as a request: the handler has no await and answers in one step.
GetHealth(r) ==
  /\ CanArrive(r)
  /\ LET body == [status |-> "ok",
                  mongo |-> IF mongoUp THEN "connected" ELSE "disconnected",
                  websockets |-> Cardinality(EngineClients)]
     IN /\ req' = [req EXCEPT ![r].kind = "HEALTH", ![r].pc = "done",
                              ![r].status = 200, ![r].resp = body]
        /\ health' = [status |-> body.status, mongo |-> body.mongo,
                      websockets |-> body.websockets,
                      counted |-> EngineClients]
  /\ UNCHANGED <<tasks, nextOid, emitted, retOrder, conn, mongoUp, users>>

\* Connections next to pairs of racing requests.
NextFan ==
  \/ \E c \in Conns : EngineOpen(c)
  \/ \E c \in Conns, e \in AuthClaims : AuthMiddleware(c, e)
  \/ \E c \in Conns : Disconnect(c)
  \/ \E c \in Conns, p \in Conns : Recover(c, p)
  \/ \E r \in Reqs : PostTasks(r, ConnBody)
  \/ \E r \in Reqs : PutTasks(r, SeedHex, TitleOnly("T2"))
  \/ \E r \in Reqs : DeleteTasks(r, SeedHex)
  \/ \E r \in Reqs : StoreInsertOne(r)
  \/ \E r \in Reqs : StoreUpdateOne(r)
  \/ \E r \in Reqs : StoreFindOne(r)
  \/ \E r \in Reqs : StoreDeleteOne(r)
  \/ \E r \in Reqs : StoreThrow(r)
  \/ \E r \in Reqs : PostTasksReturn(r)
  \/ \E r \in Reqs : PutTasksAfterUpdate(r)
  \/ \E r \in Reqs : PutTasksAfterFind(r)
  \/ \E r \in Reqs : DeleteTasksReturn(r)

SpecFan == Init /\ [][NextFan]_vars

\* The connection lifecycle and the health report next to MaxConnReq requests.
ConnReqs == 1..MaxConnReq

NextConn ==
  \/ \E c \in Conns : EngineOpen(c)
  \/ \E c \in Conns, e \in AuthClaims : AuthMiddleware(c, e)
  \/ \E c \in Conns : Disconnect(c)
  \/ TopologyChange
  \/ HealthCheck
  \/ \E r \in ConnReqs : PostTasks(r, ConnBody)
  \/ \E r \in ConnReqs : PutTasks(r, SeedHex, TitleOnly("T2"))
  \/ \E r \in ConnReqs : DeleteTasks(r, SeedHex)
  \/ \E r \in ConnReqs : StoreInsertOne(r)
  \/ \E r \in ConnReqs : StoreUpdateOne(r)
  \/ \E r \in ConnReqs : StoreFindOne(r)
  \/ \E r \in ConnReqs : StoreDeleteOne(r)
  \/ \E r \in ConnReqs : StoreThrow(r)
  \/ \E r \in ConnReqs : PostTasksReturn(r)
  \/ \E r \in ConnReqs : PutTasksAfterUpdate(r)
  \/ \E r \in ConnReqs : PutTasksAfterFind(r)
  \/ \E r \in ConnReqs : DeleteTasksReturn(r)

SpecConn == Init /\ [][NextConn]_vars

\* Sessions (admission, disconnect, recovery) next to MaxConnReq requests
\* that the store answers.
NextSess ==
  \/ \E c \in Conns : EngineOpen(c)
  \/ \E c \in Conns, e \in AuthClaims : AuthMiddleware(c, e)
  \/ \E c \in Conns : Disconnect(c)
  \/ \E c \in Conns, p \in Conns : Recover(c, p)
  \/ \E r \in ConnReqs : PostTasks(r, ConnBody)
  \/ \E r \in ConnReqs : PutTasks(r, SeedHex, TitleOnly("T2"))
  \/ \E r \in ConnReqs : DeleteTasks(r, SeedHex)
  \/ \E r \in ConnReqs : StoreInsertOne(r)
  \/ \E r \in ConnReqs : StoreUpdateOne(r)
  \/ \E r \in ConnReqs : StoreFindOne(r)
  \/ \E r \in ConnReqs : StoreDeleteOne(r)
  \/ \E r \in ConnReqs : PostTasksReturn(r)
  \/ \E r \in ConnReqs : PutTasksAfterUpdate(r)
  \/ \E r \in ConnReqs : PutTasksAfterFind(r)
  \/ \E r \in ConnReqs : DeleteTasksReturn(r)

SpecSess == Init /\ [][NextSess]_vars

\* Store failures next to sessions of one email that stay connected:
\* requests that fail and requests that are served, before and after them.
NextFail ==
  \/ \E c \in Conns : EngineOpen(c)
  \/ \E c \in Conns : AuthMiddleware(c, "a@x.com")
  \/ \E r \in Reqs : PostTasks(r, ConnBody)
  \/ \E r \in Reqs : PutTasks(r, SeedHex, TitleOnly("T2"))
  \/ \E r \in Reqs : DeleteTasks(r, SeedHex)
  \/ \E r \in Reqs : StoreInsertOne(r)
  \/ \E r \in Reqs : StoreUpdateOne(r)
  \/ \E r \in Reqs : StoreFindOne(r)
  \/ \E r \in Reqs : StoreDeleteOne(r)
  \/ \E r \in Reqs : StoreThrow(r)
  \/ \E r \in Reqs : PostTasksReturn(r)
  \/ \E r \in Reqs : PutTasksAfterUpdate(r)
  \/ \E r \in Reqs : PutTasksAfterFind(r)
  \/ \E r \in Reqs : DeleteTasksReturn(r)

SpecFail == Init /\ [][NextFail]_vars

\* Every route of the application, with the steps of the store and of the
\* handlers' continuations.
UserBodies ==
  { [f \in {"email"} |-> "a@x.com"],
    [f \in {"_id", "email"} |-> IF f = "_id" THEN Str("u1") ELSE "a@x.com"] }
\* The store executes, or fails, the call request r waits for.
StoreStep(r) ==
  \/ StoreInsertUser(r)
  \/ StoreFind(r)
  \/ StoreInsertOne(r)
  \/ StoreUpdateOne(r)
  \/ StoreFindOne(r)
  \/ StoreDeleteOne(r)
  \/ StoreThrow(r)
\* The continuation of request r's handler runs after its await.
HandlerStep(r) ==
  \/ PostUsersReturn(r)
  \/ GetTasksReturn(r)
  \/ PostTasksReturn(r)
  \/ PutTasksAfterUpdate(r)
  \/ PutTasksAfterFind(r)
  \/ DeleteTasksReturn(r)
  \/ PostTasksEmitThrows(r)
  \/ PutTasksEmitThrows(r)
  \/ DeleteTasksEmitThrows(r)

NextLive ==
  \/ \E r \in Reqs, b \in UserBodies : PostUsers(r, b)
  \/ \E r \in Reqs, e \in {"", "a@x.com"} : GetTasks(r, e)
  \/ \E r \in Reqs : PostTasks(r, ConnBody)
  \/ \E r \in Reqs, id \in {SeedHex, BadParam} :
       PutTasks(r, id, TitleOnly("T2"))
  \/ \E r \in Reqs, id \in {SeedHex, BadParam} : DeleteTasks(r, id)
  \/ \E r \in Reqs : GetHealth(r)
  \/ \E r \in Reqs : StoreStep(r)
  \/ \E r \in Reqs : HandlerStep(r)

\* A pending store call is eventually executed or fails, and Node's event
\* loop eventually runs a continuation that is ready.
SpecLive ==
  /\ Init
  /\ [][NextLive]_vars
  /\ \A r \in Reqs : WF_vars(StoreStep(r)) /\ WF_vars(HandlerStep(r))

\* ------------------------------------------------------------------ claims
EventsOf(r) == {i \in DOMAIN emitted : emitted[i].rid = r}
EventIndex(r) == CHOOSE i \in DOMAIN emitted : emitted[i].rid = r
WriteReturned(r) == \E i \in DOMAIN retOrder : retOrder[i] = r
ReturnIndex(r) == CHOOSE i \in DOMAIN retOrder : retOrder[i] = r
EventKind(kind) ==
  IF kind = "POST" THEN "taskAdded"
  ELSE IF kind = "PUT" THEN "taskUpdated" ELSE "taskDeleted"
\* The store reported that the request's write changed the collection.
WriteChanged(r) ==
  /\ req[r].result.n > 0
  /\ req[r].kind = "POST" => Truthy(req[r].result.id)
Done(r) == req[r].pc = "done"

\* C1 (as claimed): for a PUT and a DELETE of one identifier whose events were
\* both emitted, if updateOne returned before deleteOne returned, every session
\* that got both events got taskUpdated before taskDeleted.
C1_DeletedAfterUpdated ==
  \A u \in Reqs, d \in Reqs :
    ( /\ req[u].kind = "PUT" /\ req[d].kind = "DELETE"
      /\ req[u].id = req[d].id
      /\ EventsOf(u) # {} /\ EventsOf(d) # {}
      /\ ReturnIndex(u) < ReturnIndex(d) )
    => \A c \in emitted[EventIndex(u)].to \cap emitted[EventIndex(d)].to :
         EventIndex(u) < EventIndex(d)

\* C2: every emitted event is of a request whose write call had returned,
\* reporting a change (insertedId truthy, modifiedCount > 0, deletedCount > 0),
\* and is of that request's kind.
C2_EmitOnlyAfterChange ==
  \A i \in DOMAIN emitted :
    LET r == emitted[i].rid IN
      /\ WriteReturned(r)
      /\ WriteChanged(r)
      /\ emitted[i].ev = EventKind(req[r].kind)

\* C2 witness: an update and a delete have both been broadcast.
C2_Witness ==
  \E i, j \in DOMAIN emitted :
    emitted[i].ev = "taskUpdated" /\ emitted[j].ev = "taskDeleted"

\* C3 (as claimed): a finished request whose write changed the collection has
\* emitted exactly one event.
C3_ExactlyOneEvent ==
  \A r \in Reqs :
    (Done(r) /\ WriteChanged(r)) => Cardinality(EventsOf(r)) = 1

\* C4 (as claimed): two PUTs of one identifier that both emitted did so in the
\* order in which their updateOne calls returned.
C4_UpdatedInReturnOrder ==
  \A a \in Reqs, b \in Reqs :
    ( /\ req[a].kind = "PUT" /\ req[b].kind = "PUT"
      /\ req[a].id = req[b].id
      /\ EventsOf(a) # {} /\ EventsOf(b) # {}
      /\ ReturnIndex(a) < ReturnIndex(b) )
    => EventIndex(a) < EventIndex(b)

\* C5 (as claimed): a PUT whose updateOne was answered gets 404 exactly when
\* no document matched, and 200 with a taskUpdated event when one matched.
UpdateAnswered(r) ==
  /\ req[r].kind = "PUT"
  /\ \/ req[r].op = "findOne"
     \/ req[r].op = "updateOne" /\ req[r].pc \in {"ret", "done"}
                               /\ req[r].result.ok
C5_NotFoundIffNoMatch ==
  \A r \in Reqs :
    (Done(r) /\ UpdateAnswered(r))
    => /\ (req[r].status = 404) <=> (req[r].result.matched = 0)
       /\ req[r].result.matched = 1 =>
            (req[r].status = 200 /\ EventsOf(r) # {})

\* C6 (as claimed): the payload of every taskUpdated event, which is also the
\* body of the 200 response, is a document with the requested identifier.
C6_UpdatedPayloadIsTask ==
  \A i \in DOMAIN emitted :
    emitted[i].ev = "taskUpdated" =>
      LET r == emitted[i].rid
          d == emitted[i].payload
      IN /\ d # NullDoc
         /\ HasField(d, "_id")
         /\ IF HasField(d, "_id") THEN d["_id"] = ObjectId(req[r].id) ELSE FALSE
         /\ req[r].resp = d

\* C7: a PUT whose updateOne reported zero modified documents emits nothing
\* and is answered 404, and that updateOne left the collection as it was.
ZeroModified(q) ==
  /\ q.kind = "PUT"
  /\ \/ q.op = "findOne"
     \/ q.op = "updateOne" /\ q.pc \in {"ret", "done"} /\ q.result.ok
  /\ q.result.n = 0
C7_ZeroModifiedIsNotFound ==
  /\ [](\A r \in Reqs :
          ZeroModified(req[r]) =>
            /\ EventsOf(r) = {}
            /\ Done(r) => req[r].status = 404)
  /\ [][\A r \in Reqs :
          (req'[r] # req[r] /\ ZeroModified(req'[r])) => tasks' = tasks]_vars

\* C7 witness: a PUT of a stored task with the values it already has was
\* answered 404.
C7_Witness ==
  \E r \in Reqs :
    /\ ZeroModified(req[r]) /\ Done(r)
    /\ req[r].result.matched = 1
    /\ ObjectId(req[r].id) \in DOMAIN tasks

\* C8: a POST answered 201 emitted one taskAdded event whose _id is the
\* insertedId, which is also the _id of the response body and of the document
\* the store holds under that identifier.
C8_AddedCarriesInsertedId ==
  \A r \in Reqs :
    (req[r].kind = "POST" /\ req[r].status = 201) =>
      LET id == req[r].result.id IN
        /\ Cardinality(EventsOf(r)) = 1
        /\ \A i \in EventsOf(r) :
             /\ emitted[i].ev = "taskAdded"
             /\ HasField(emitted[i].payload, "_id")
             /\ IF HasField(emitted[i].payload, "_id")
                  THEN emitted[i].payload["_id"] = id ELSE FALSE
        /\ HasField(req[r].resp, "_id")
        /\ IF HasField(req[r].resp, "_id")
             THEN req[r].resp["_id"] = id ELSE FALSE
        /\ id \in DOMAIN tasks => tasks[id]["_id"] = id

\* C8 witness: a POST whose body carried its own identifier and one whose
\* body carried a null identifier were both answered 201.
C8_Witness ==
  \E r, q \in Reqs :
    /\ req[r].kind = "POST" /\ req[r].status = 201
    /\ req[r].result.id = Str("c1")
    /\ req[q].kind = "POST" /\ req[q].status = 201
    /\ req[q].result.id.t = "oid" /\ ~HasField(req[q].body, "userEmail")

\* C9: of two answered DELETEs of one identifier that was stored when the
\* first arrived (and no third DELETE of it), one got 200 and emitted the only
\* taskDeleted event for the identifier, the other got 404 and emitted nothing.
DeleteAnswered(r) ==
  req[r].kind = "DELETE" /\ Done(r) /\ req[r].status \in {200, 404}
DeletedEvents(id) ==
  {i \in DOMAIN emitted :
     emitted[i].ev = "taskDeleted" /\ emitted[i].payload = Str(id)}
C9_DeleteTwice ==
  \A a \in Reqs, b \in Reqs :
    ( /\ a < b /\ DeleteAnswered(a) /\ DeleteAnswered(b)
      /\ req[a].id = req[b].id /\ req[a].seen
      /\ \A q \in Reqs \ {a, b} :
           ~(req[q].kind = "DELETE" /\ req[q].id = req[a].id) )
    => /\ {req[a].status, req[b].status} = {200, 404}
       /\ Cardinality(DeletedEvents(req[a].id)) = 1
       /\ \A r \in {a, b} :
            Cardinality(EventsOf(r)) = (IF req[r].status = 200 THEN 1 ELSE 0)

\* C9 witness: two DELETEs of a stored task raced and the one that arrived
\* second was the one answered 200.
C9_Witness ==
  \E a \in Reqs, b \in Reqs :
    /\ a < b /\ DeleteAnswered(a) /\ DeleteAnswered(b)
    /\ req[a].id = req[b].id /\ req[a].seen /\ req[b].seen
    /\ req[a].status = 404 /\ req[b].status = 200

\* C10 (as claimed): a connection the middleware rejected for want of an
\* identity claim is in no health report's session count and among no
\* event's recipients.
Unauthorized(c) == conn[c].auth = "unauthorized"
C10_UnauthorizedNeverCounted ==
  \A c \in Conns :
    Unauthorized(c) =>
      /\ c \notin health.counted
      /\ \A i \in DOMAIN emitted : c \notin emitted[i].to

\* The half of C10 that the code keeps: no event goes to such a connection.
C10_UnauthorizedNeverPushed ==
  \A c \in Conns :
    Unauthorized(c) => \A i \in DOMAIN emitted : c \notin emitted[i].to


\* C11 (as claimed): a request whose write was committed and whose io.emit
\* call failed is still answered with its success status.
C11_EmitFailureNotSurfaced ==
  \A r \in Reqs :
    (Done(r) /\ req[r].emitFailed) => req[r].status \in {200, 201}


\* C12 (as claimed): the events a connection's client gets are only those
\* emitted while that connection was active.
C12_OnlyWhileActive ==
  \A c \in Conns :
    Received(c) \subseteq {i \in DOMAIN emitted : c \in emitted[i].to}


\* C13: every io.emit reaches exactly the sessions that are active when it is
\* called, whatever their email and whatever the task's owner.
C13_DeliveredToAllActive ==
  [][Len(emitted') = Len(emitted) + 1 =>
       emitted'[Len(emitted')].to = {c \in Conns : conn[c].st = "active"}]_vars

\* C13 witness: a taskAdded of a task owned by a@x.com went to a session of
\* a@x.com and to a session of b@x.com.
C13_Witness ==
  \E i \in DOMAIN emitted :
    /\ emitted[i].ev = "taskAdded"
    /\ emitted[i].payload["userEmail"] = "a@x.com"
    /\ \E c, d \in emitted[i].to :
         conn[c].email = "a@x.com" /\ conn[d].email = "b@x.com"


\* C14: every stored task keeps the identifier it is stored under; the $set
\* document of a PUT never names _id; the set of stored identifiers changes
\* only by an insertOne adding its document's or a deleteOne removing its
\* own; and an updateOne of id I leaves every other task as it was.
IdsOf(ts) == DOMAIN ts
C14_IdentifierImmutable ==
  /\ [](\A i \in IdsOf(tasks) : tasks[i]["_id"] = i)
  /\ [](\A r \in Reqs : req[r].kind = "PUT" => ~HasField(req[r].body, "_id"))
  /\ [][IdsOf(tasks') # IdsOf(tasks) =>
          \E r \in Reqs :
            \/ /\ Pending(r, "insertOne")
               /\ IdsOf(tasks') = IdsOf(tasks) \cup {req[r].body["_id"]}
            \/ /\ Pending(r, "deleteOne")
               /\ IdsOf(tasks') = IdsOf(tasks) \ {ObjectId(req[r].id)}]_vars
  /\ [][\A r \in Reqs :
          (Pending(r, "updateOne") /\ req'[r].pc = "ret") =>
            /\ IdsOf(tasks') = IdsOf(tasks)
            /\ \A i \in IdsOf(tasks) \ {ObjectId(req[r].id)} :
                 tasks'[i] = tasks[i]]_vars

\* C14 witness: with two tasks stored, a PUT whose body named another
\* identifier modified the seed task.
C14_Witness ==
  \E r \in Reqs :
    /\ req[r].kind = "PUT" /\ req[r].status = 200
    /\ HasField(req[r].body, "userEmail")
    /\ Cardinality(IdsOf(tasks)) = 2
    /\ Oid(SeedHex) \in IdsOf(tasks)
    /\ tasks[Oid(SeedHex)]["title"] = "T2"


\* C15 (as claimed): every stored task has a non-empty owner email.
C15_EveryTaskHasOwner ==
  \A i \in DOMAIN tasks :
    /\ HasField(tasks[i], "userEmail")
    /\ IF HasField(tasks[i], "userEmail")
         THEN tasks[i]["userEmail"] # "" ELSE FALSE


\* C16: the find of a GET /tasks with a non-empty email gives exactly the
\* stored tasks whose userEmail is that email, and they are the 200 body; an
\* absent or empty email is answered 400 without a store call; no step of a
\* GET changes the collections, the sessions or the events.
IsGet(q) == q.kind = "GET"
C16_ListByOwner ==
  /\ [](\A r \in Reqs :
          IsGet(req[r]) =>
            /\ (req[r].id = "") <=> (req[r].status = 400)
            /\ req[r].id = "" => (Done(r) /\ req[r].op = "none")
            /\ req[r].status = 200 => req[r].resp = req[r].result.docs)
  /\ [][\A r \in Reqs :
          (Pending(r, "find") /\ req'[r].pc = "ret" /\ req'[r].result.ok) =>
            /\ \A d \in req'[r].result.docs :
                 \E i \in DOMAIN tasks :
                   tasks[i] = d /\ d["userEmail"] = req[r].id
            /\ \A i \in DOMAIN tasks :
                 (HasField(tasks[i], "userEmail")
                    /\ tasks[i]["userEmail"] = req[r].id)
                 => tasks[i] \in req'[r].result.docs]_vars
  /\ [][\A r \in Reqs :
          (req'[r] # req[r] /\ IsGet(req'[r])) =>
            UNCHANGED <<tasks, users, conn, emitted>>]_vars

\* C16 witness: after the seed task of a@x.com was deleted, a GET for
\* a@x.com whose find ran afterwards was answered 200 with no task.
C16_Witness ==
  \E r \in Reqs :
    /\ IsGet(req[r]) /\ req[r].id = "a@x.com"
    /\ req[r].status = 200 /\ req[r].resp = {}
    /\ \E q \in Reqs : req[q].kind = "DELETE" /\ req[q].status = 200


\* C17: a request whose store call failed is answered 500; a request answered
\* 500 has emitted no event; the step that answers 500 changes nothing but
\* that request (the tasks, the sessions, the events and the other requests
\* are as they were); and whatever failed before, the next request is
\* accepted.
StoreFailed(r) == ~req[r].result.ok
C17_FailureIsContained ==
  /\ [](\A r \in Reqs :
          /\ (Done(r) /\ StoreFailed(r)) => req[r].status = 500
          /\ req[r].status = 500 => EventsOf(r) = {}
          /\ CanArrive(r) =>
               /\ ENABLED PostTasks(r, ConnBody)
               /\ ENABLED PutTasks(r, SeedHex, TitleOnly("T2"))
               /\ ENABLED DeleteTasks(r, SeedHex))
  /\ [][\A r \in Reqs :
          (req[r].status # 500 /\ req'[r].status = 500) =>
            /\ UNCHANGED <<tasks, conn, emitted>>
            /\ \A q \in Reqs \ {r} : req'[q] = req[q]]_vars

\* C17 witness: a request's store call failed and it was answered 500; the
\* request after it was served and its event went to an admitted session.
C17_Witness ==
  \E r, q \in Reqs :
    /\ r < q
    /\ StoreFailed(r) /\ req[r].status = 500
    /\ req[q].status \in {200, 201}
    /\ \E i \in EventsOf(q) : emitted[i].to # {}


\* C18 (as claimed): a connection is Active only through the middleware, with
\* the non-empty email of its handshake recorded on the session; a handshake
\* the middleware rejected is never Active.
C18_ActiveOnlyByEmail ==
  \A c \in Conns :
    /\ conn[c].st = "active" =>
         (conn[c].auth = "ok" /\ Admitted(conn[c].email))
    /\ conn[c].auth = "unauthorized" => conn[c].st \in {"rejected", "closed"}


\* C19 (as claimed): a request answered 400, 404 or 500 has left no write in
\* the collection.
ErrorStatus == {400, 404, 500}
C19_ErrorLeavesNoWrite ==
  \A r \in Reqs :
    (Done(r) /\ req[r].status \in ErrorStatus) => req[r].result.n = 0


\* C20: every request that arrived is eventually answered; a request has a
\* status exactly when it is answered; an answered request never changes
\* again (no second response); and a request is never anywhere but idle,
\* waiting for the store, ready to continue, or answered.
C20_AnsweredOnce ==
  /\ \A r \in Reqs : (req[r].pc # "idle") ~> Done(r)
  /\ [](\A r \in Reqs :
          /\ req[r].pc \in {"idle", "call", "ret", "done"}
          /\ Done(r) <=> (req[r].status # 0))
  /\ [][\A r \in Reqs : Done(r) => req'[r] = req[r]]_vars

\* C20 witness: a PUT answered 404 (NotFound) next to a request whose store
\* call failed and that was answered 500.
C20_Witness ==
  \E r, q \in Reqs :
    /\ req[r].kind = "PUT" /\ Done(r) /\ req[r].status = 404
    /\ Done(q) /\ StoreFailed(q) /\ req[q].status = 500

====
